---- MODULE Spec2Model ----
(***************************************************************************)
(* IPAM service: subnets, IP address records, DNS zones and the            *)
(* "allocate next free address" operation, modelled from models.py,        *)
(* subnets.py and ip_addresses.py.                                         *)
(*                                                                         *)
(* Python integers are unbounded; an address value can reach 2^128, which  *)
(* no machine integer of the model checker holds.  A Python int is         *)
(* therefore a sequence of hexadecimal digits (0..15), most significant    *)
(* first, without leading zeros (zero is <<0>>).  A Python/SQL string of   *)
(* hex characters is a sequence of the same digits: the characters         *)
(* "0".."9","a".."f" sort in digit order, so comparing two strings is      *)
(* the lexicographic comparison of the digit sequences.                    *)
(*                                                                         *)
(* An optional value (str | None) is <<>> for None and <<v>> for v.        *)
(***************************************************************************)
EXTENDS Naturals, Sequences, FiniteSets

VARIABLES subnets, ips, zones, pend, last

vars == <<subnets, ips, zones, pend, last>>

-----------------------------------------------------------------------------
(* Python int and str primitives on digit sequences                        *)

None == <<>>

Some(v) == <<v>>

Zeros(n) == [i \in 1..n |-> 0]

Front(s) == SubSeq(s, 1, Len(s) - 1)

RECURSIVE StripZeros(_)
\* int(s, 16): leading zeros carry no value
StripZeros(s) ==
    IF Len(s) > 1 /\ s[1] = 0 THEN StripZeros(Tail(s)) ELSE s

RECURSIVE StrLess(_, _)
\* Python's and SQLite's a < b on strings: first differing character decides,
\* a proper prefix is smaller
StrLess(a, b) ==
    IF a = <<>> THEN b # <<>>
    ELSE IF b = <<>> THEN FALSE
    ELSE IF a[1] # b[1] THEN a[1] < b[1]
    ELSE StrLess(Tail(a), Tail(b))

StrLeq(a, b) == a = b \/ StrLess(a, b)

\* a < b on Python ints
IntLess(a, b) ==
    \/ Len(a) < Len(b)
    \/ Len(a) = Len(b) /\ StrLess(a, b)

IntLeq(a, b) == a = b \/ IntLess(a, b)

RECURSIVE IntSucc(_)
\* value + 1
IntSucc(v) ==
    IF v = <<>> THEN <<1>>
    ELSE IF v[Len(v)] < 15 THEN [v EXCEPT ![Len(v)] = @ + 1]
    ELSE IntSucc(Front(v)) \o <<0>>

RECURSIVE IntPredRaw(_)
IntPredRaw(v) ==
    IF v[Len(v)] > 0 THEN [v EXCEPT ![Len(v)] = @ - 1]
    ELSE IntPredRaw(Front(v)) \o <<15>>

\* value - 1, for value > 0
IntPred(v) == StripZeros(IntPredRaw(v))

Pow2(k) == CASE k = 0 -> 1 [] k = 1 -> 2 [] k = 2 -> 4 [] k = 3 -> 8 [] OTHER -> 16

-----------------------------------------------------------------------------
(* models.py: the key codec                                                *)

_HEX_LEN == 32

\* format(value, "032x"): zero-padded to at least 32 characters; a value of
\* more than 32 digits is rendered in full
_int_to_hex(value) ==
    IF Len(value) >= _HEX_LEN THEN value
    ELSE Zeros(_HEX_LEN - Len(value)) \o value

\* the key taken as the number, leading zeros kept
HexAsWritten(value) == value

\* int(value, 16)
_hex_to_int(value) == StripZeros(value)

-----------------------------------------------------------------------------
(* ipaddress.IPv4Network / IPv6Network as the Subnet model uses them       *)

max_prefix(is_ipv6) == IF is_ipv6 THEN 128 ELSE 32

\* the address as max_prefix/4 digits
FixedWidth(v, is_ipv6) ==
    Zeros((max_prefix(is_ipv6) \div 4) - Len(v)) \o v

\* host bits of digit i (1 = most significant) under a prefix length
HostBits(i, prefixlen) ==
    IF 4 * i <= prefixlen THEN 0
    ELSE IF 4 * i - prefixlen >= 4 THEN 4
    ELSE 4 * i - prefixlen

\* the value fits the family's address space
ValidAddressInt(v, is_ipv6) == Len(v) <= max_prefix(is_ipv6) \div 4

\* the address as written, host bits kept
AddressAsWritten(v, prefixlen, is_ipv6) == v

\* ip_network((addr_int, prefix), strict=False).network_address
NetworkAddressOf(v, prefixlen, is_ipv6) ==
    LET f == FixedWidth(v, is_ipv6)
    IN  StripZeros([i \in 1..Len(f) |->
            f[i] - (f[i] % Pow2(HostBits(i, prefixlen)))])

\* ip_network((addr_int, prefix), strict=False).broadcast_address
BroadcastAddressOf(v, prefixlen, is_ipv6) ==
    LET f == FixedWidth(v, is_ipv6)
    IN  StripZeros([i \in 1..Len(f) |->
            f[i] - (f[i] % Pow2(HostBits(i, prefixlen)))
                 + Pow2(HostBits(i, prefixlen)) - 1])

\* Subnet.network: the network object of a stored subnet row
network(subnet) ==
    [is_ipv6 |-> subnet.is_ipv6,
     prefixlen |-> subnet.prefix_length,
     network_address |-> NetworkAddressOf(_hex_to_int(subnet.network_address),
                             subnet.prefix_length, subnet.is_ipv6),
     broadcast_address |-> BroadcastAddressOf(_hex_to_int(subnet.network_address),
                             subnet.prefix_length, subnet.is_ipv6)]

\* addr in net (ipaddress: False across families, else a mask comparison)
InNetwork(addr, net) ==
    /\ addr.is_ipv6 = net.is_ipv6
    /\ NetworkAddressOf(addr.value, net.prefixlen, net.is_ipv6) = net.network_address

-----------------------------------------------------------------------------
(* models.py: Subnet                                                        *)

\* Subnet.from_cidr: the row built from a parsed CIDR; the id is assigned by
\* the insert
from_cidr(cidr, name, description) ==
    [name |-> name,
     network_address |-> _int_to_hex(
         NetworkAddressOf(cidr.value, cidr.prefixlen, cidr.is_ipv6)),
     prefix_length |-> cidr.prefixlen,
     is_ipv6 |-> cidr.is_ipv6,
     description |-> description]

\* Subnet.total_hosts: network.num_addresses
total_hosts(subnet) ==
    LET h == max_prefix(subnet.is_ipv6) - subnet.prefix_length
        p[k \in 0..h] == IF k = 0 THEN 1 ELSE 2 * p[k - 1]
    IN  p[h]

\* the threshold of Subnet.usable_hosts, first_usable and last_usable
ModelWholeRangeUsable(subnet) ==
    subnet.prefix_length >= (IF subnet.is_ipv6 THEN 128 ELSE 31)

usable_hosts(subnet) ==
    IF ModelWholeRangeUsable(subnet) THEN total_hosts(subnet)
    ELSE total_hosts(subnet) - 2

\* network_address + 1 and broadcast_address - 1 are address objects: the
\* result must be an address of the family, else ipaddress raises
first_usable(subnet) ==
    IF ModelWholeRangeUsable(subnet) THEN network(subnet).network_address
    ELSE IntSucc(network(subnet).network_address)

last_usable(subnet) ==
    IF ModelWholeRangeUsable(subnet) THEN network(subnet).broadcast_address
    ELSE IntPred(network(subnet).broadcast_address)

-----------------------------------------------------------------------------
(* models.py: IPAddress                                                     *)

\* IPAddress.address_str raises AddressValueError (a ValueError) when the
\* stored value is no address of the family
AddressStrRaises(row) == ~ValidAddressInt(_hex_to_int(row.address), row.is_ipv6)

\* IPAddress.address_str: the address the rendered string denotes
address_str(row) ==
    [is_ipv6 |-> row.is_ipv6, value |-> _hex_to_int(row.address)]

\* IPAddress.from_string raises ValueError when the address is outside the
\* subnet
FromStringRaises(address, subnet) == ~InNetwork(address, network(subnet))

from_string(address, subnet, description, dns_name) ==
    [address |-> _int_to_hex(address.value),
     is_ipv6 |-> address.is_ipv6,
     dns_name |-> dns_name,
     description |-> description,
     subnet_id |-> subnet.id]

\* a table without the unique constraint
NoUniqueConstraint(row, table) == FALSE

\* unique=True on ip_addresses.address: the insert of a row whose address
\* some stored row already has is rejected (IntegrityError)
AddressUniqueViolated(row, table) ==
    \E r \in table : r.address = row.address

\* the id an INTEGER PRIMARY KEY insert assigns: one more than the largest
NextId(table) ==
    IF table = {} THEN 1
    ELSE (CHOOSE m \in {r.id : r \in table} :
              \A r \in table : r.id <= m) + 1

WithId(row, id) ==
    [k \in DOMAIN row \cup {"id"} |-> IF k = "id" THEN id ELSE row[k]]

-----------------------------------------------------------------------------
(* DNS names: sequences of one-character strings                           *)

RECURSIVE rstrip(_)
\* str.rstrip("."): every trailing "." is removed
rstrip(s) ==
    IF s # <<>> /\ s[Len(s)] = "." THEN rstrip(Front(s)) ELSE s

endswith(s, suffix) ==
    /\ Len(s) >= Len(suffix)
    /\ SubSeq(s, Len(s) - Len(suffix) + 1, Len(s)) = suffix

\* a raw string suffix match: no "." required before the zone
RawSuffixMatch(dns_name, zone_names) ==
    \E zone_name \in zone_names :
        endswith(rstrip(dns_name), rstrip(zone_name))

\* ip_addresses.py _assert_dns_name_in_zone: TRUE when it returns, FALSE when
\* it raises the 400
_assert_dns_name_in_zone(dns_name, zone_names) ==
    LET normalized == rstrip(dns_name)
    IN  \E zone_name \in zone_names :
            LET zone == rstrip(zone_name)
            IN  normalized = zone \/ endswith(normalized, <<".">> \o zone)

\* a handler that checks no name
AnyNameAccepted(dns_name, zone_names) == TRUE

\* the check inlined in allocate_next_ip
AllocateDnsNameInZone(dns_name, zone_names) ==
    LET normalized == rstrip(dns_name)
    IN  \E z \in zone_names :
            \/ normalized = rstrip(z)
            \/ endswith(normalized, <<".">> \o rstrip(z))

-----------------------------------------------------------------------------
(* Bounds and the inputs requests are drawn from                           *)

\* IP address rows the model lets the table grow to
MaxIPs == 2

\* subnet rows the model lets create_subnet store
MaxSubnets == 2

\* server processes sharing the database
Procs == {1, 2}

\* 10.0.0.k as an integer (also ::a00:k)
A10(k) == <<10, 0, 0, 0, 0, 0, k>>

\* 0xfffffff<k>, the last sixteen addresses of the IPv4 space
TopV4(k) == [i \in 1..8 |-> IF i = 8 THEN k ELSE 15]

\* ffff:...:fff<k>, the top of the IPv6 space
TopV6(k) == [i \in 1..32 |-> IF i = 32 THEN k ELSE 15]

V4(v) == [is_ipv6 |-> FALSE, value |-> v]

V6(v) == [is_ipv6 |-> TRUE, value |-> v]

\* ipaddress.ip_network(cidr, strict=False) of a CIDR string: family, address
\* as written (host bits included) and prefix length
Cidr(addr, prefixlen) ==
    [is_ipv6 |-> addr.is_ipv6, value |-> addr.value, prefixlen |-> prefixlen]

\* the subnet tables the address operations run against, each the table a
\* sequence of create_subnet requests leaves behind
SubnetFixtures ==
    { <<Cidr(V4(A10(0)), 29)>>,
      <<Cidr(V4(A10(0)), 30)>>,
      <<Cidr(V4(A10(0)), 31)>>,
      <<Cidr(V4(A10(1)), 32)>>,
      <<Cidr(V4(TopV4(14)), 31)>>,
      <<Cidr(V6(A10(0)), 126)>>,
      <<Cidr(V6(A10(0)), 127)>>,
      <<Cidr(V6(TopV6(14)), 127)>>,
      <<Cidr(V6(TopV6(15)), 128)>>,
      <<Cidr(V4(A10(0)), 30), Cidr(V4(A10(0)), 31)>>,
      <<Cidr(V4(A10(0)), 30), Cidr(V6(A10(0)), 126)>> }

\* the tables the interleaved requests run against
RaceFixtures ==
    { <<Cidr(V4(A10(0)), 30)>>,
      <<Cidr(V4(A10(0)), 31)>>,
      <<Cidr(V6(A10(0)), 126)>>,
      <<Cidr(V6(TopV6(15)), 128)>> }

\* 10.0.0.0 .. 10.0.0.3 and ::a00:1, whose key equals that of 10.0.0.1
AddressInputs == {V4(A10(k)) : k \in 0..3} \cup {V6(A10(1))}

\* the ids of the fixture tables and one id no table holds
SubnetIdInputs == {1, 2, 3}

IPIdInputs == 1..(MaxIPs + 1)

ZoneExample == <<"b", ".", "c">>

\* "a.b.c" is in the zone "b.c"
NameInside == <<"a", ".", "b", ".", "c">>

\* "ab.c" ends with "b.c", but not at a label boundary
NameOutside == <<"a", "b", ".", "c">>

DnsNameInputs == {None, Some(NameInside), Some(NameOutside)}

DescriptionInputs == {None, Some("d")}

-----------------------------------------------------------------------------
(* Requests and responses                                                  *)

Idle == [pc |-> "idle", row |-> None, allocated |-> <<>>]

\* the response of the last request that reached its commit: HTTP status, what
\* decided it, the row it stored, the address the body reports and, for
\* allocate, the occupied keys its scan loaded.  A request refused before its
\* commit (404, 400, 409) leaves every variable as it is: what it answers is
\* the status of its outcome below.
Reply(op, status, detail, row, address, allocated) ==
    [op |-> op, status |-> status, detail |-> detail,
     row |-> row, address |-> address, allocated |-> allocated]

NoReply == Reply("none", 0, "none", None, None, <<>>)

\* the outcome of the part of a handler that runs before its insert: a
\* status to answer with, or status 0 and the row to insert
Outcome(status, detail, row, allocated) ==
    [status |-> status, detail |-> detail, row |-> row, allocated |-> allocated]

ZoneNames == {z.name : z \in zones}

RECURSIVE SortedSeq(_)
\* sorted(...) of a set of strings
SortedSeq(S) ==
    IF S = {} THEN <<>>
    ELSE LET m == CHOOSE x \in S : \A y \in S : StrLeq(x, y)
         IN  <<m>> \o SortedSeq(S \ {m})

-----------------------------------------------------------------------------
(* subnets.py: allocate_next_ip                                            *)

\* the range without the network/broadcast exclusion
AllocRangeWholeNetwork(subnet) ==
    [start_int |-> network(subnet).network_address,
     end_int |-> network(subnet).broadcast_address]

\* lines 223-232: the range the allocator draws from
AllocRange(subnet) ==
    LET net == network(subnet)
    IN  IF net.prefixlen >= max_prefix(subnet.is_ipv6) - 1
        THEN [start_int |-> net.network_address,
              end_int |-> net.broadcast_address]
        ELSE [start_int |-> IntSucc(net.network_address),
              end_int |-> IntPred(net.broadcast_address)]

\* lines 242-251: the occupied keys of the subnet inside the range, sorted
LoadAllocated(subnet_id, start_hex, end_hex) ==
    SortedSeq({row.address : row \in
        {r \in ips : /\ r.subnet_id = subnet_id
                     /\ StrLeq(start_hex, r.address)
                     /\ StrLeq(r.address, end_hex)}})

\* the walk without its break: one step per occupied key
FirstGapNoBreak(allocated, candidate_hex) ==
    LET step[k \in 0..Len(allocated)] ==
            IF k = 0 THEN candidate_hex
            ELSE _int_to_hex(IntSucc(_hex_to_int(step[k - 1])))
    IN  step[Len(allocated)]

RECURSIVE FirstGap(_, _)
\* lines 254-259: walk the sorted list to the first gap
FirstGap(allocated, candidate_hex) ==
    IF allocated = <<>> THEN candidate_hex
    ELSE IF StrLess(candidate_hex, Head(allocated)) THEN candidate_hex
    ELSE FirstGap(Tail(allocated),
                  _int_to_hex(IntSucc(_hex_to_int(candidate_hex))))

\* line 261: candidate_hex > end_hex
CandidatePastEnd(candidate_hex, end_hex) == StrLess(end_hex, candidate_hex)

\* lines 207-270: the handler up to db.add
allocate_scan(subnet_id, body) ==
    LET found == {s \in subnets : s.id = subnet_id}
    IN  IF found = {} THEN Outcome(404, "subnet_not_found", None, <<>>)
        ELSE IF /\ body.dns_name # None
                /\ ~AllocateDnsNameInZone(body.dns_name[1], ZoneNames)
        THEN Outcome(400, "zone", None, <<>>)
        ELSE
          LET subnet == CHOOSE s \in found : TRUE
              range == AllocRange(subnet)
              start_hex == _int_to_hex(range.start_int)
              end_hex == _int_to_hex(range.end_int)
              allocated == LoadAllocated(subnet_id, start_hex, end_hex)
              candidate_hex == FirstGap(allocated, start_hex)
          IN  IF IntLess(range.end_int, range.start_int)
              THEN Outcome(409, "no_usable", None, <<>>)
              ELSE IF CandidatePastEnd(candidate_hex, end_hex)
              THEN Outcome(409, "exhausted", None, allocated)
              ELSE Outcome(0, "insert",
                     Some([address |-> candidate_hex,
                           is_ipv6 |-> subnet.is_ipv6,
                           dns_name |-> body.dns_name,
                           description |-> body.description,
                           subnet_id |-> subnet_id]),
                     allocated)

-----------------------------------------------------------------------------
(* ip_addresses.py: create_ip_address                                      *)

\* the handler without its lookup of the address
create_ip_check_no_lookup(body) ==
    LET found == {s \in subnets : s.id = body.subnet_id}
    IN  IF found = {} THEN Outcome(404, "subnet_not_found", None, <<>>)
        ELSE IF /\ body.dns_name # None
                /\ ~_assert_dns_name_in_zone(body.dns_name[1], ZoneNames)
        THEN Outcome(400, "zone", None, <<>>)
        ELSE
          LET subnet == CHOOSE s \in found : TRUE
          IN  IF FromStringRaises(body.address, subnet)
              THEN Outcome(400, "out_of_range", None, <<>>)
              ELSE Outcome(0, "insert",
                     Some(from_string(body.address, subnet,
                                      body.description, body.dns_name)),
                     <<>>)

\* lines 170-187: the handler up to db.add
create_ip_check(body) ==
    LET found == {s \in subnets : s.id = body.subnet_id}
        hex_addr == _int_to_hex(body.address.value)
    IN  IF found = {} THEN Outcome(404, "subnet_not_found", None, <<>>)
        ELSE IF /\ body.dns_name # None
                /\ ~_assert_dns_name_in_zone(body.dns_name[1], ZoneNames)
        THEN Outcome(400, "zone", None, <<>>)
        ELSE IF \E r \in ips : r.address = hex_addr
        THEN Outcome(409, "exists", None, <<>>)
        ELSE
          LET subnet == CHOOSE s \in found : TRUE
          IN  IF FromStringRaises(body.address, subnet)
              THEN Outcome(400, "out_of_range", None, <<>>)
              ELSE Outcome(0, "insert",
                     Some(from_string(body.address, subnet,
                                      body.description, body.dns_name)),
                     <<>>)

-----------------------------------------------------------------------------
(* db.add / db.commit / db.refresh and the response, for both handlers     *)

\* an insert that also rewrites the rows already stored
CommitIPClearingNames(row) ==
    IF AddressUniqueViolated(row, ips) THEN ips
    ELSE {[r EXCEPT !.dns_name = None] : r \in ips}
             \cup {WithId(row, NextId(ips))}

\* the table after the commit: unchanged when the unique constraint rejects
\* the row
CommitIP(row) ==
    IF AddressUniqueViolated(row, ips) THEN ips
    ELSE ips \cup {WithId(row, NextId(ips))}

\* the response after the commit: the IntegrityError of a rejected insert and
\* the ValueError of address_str are caught by no handler
CommitReply(op, row, allocated) ==
    IF AddressUniqueViolated(row, ips)
    THEN Reply(op, 500, "IntegrityError", Some(row), None, allocated)
    ELSE LET stored == WithId(row, NextId(ips))
         IN  IF AddressStrRaises(stored)
             THEN Reply(op, 500, "AddressValueError", Some(stored), None, allocated)
             ELSE Reply(op, 201, "created", Some(stored),
                        Some(address_str(stored)), allocated)

\* rows stored plus rows about to be inserted
Load == Cardinality(ips) + Cardinality({p \in Procs : pend[p].pc # "idle"})

-----------------------------------------------------------------------------
(* Actions.  A handler has no await: inside one server process it runs to   *)
(* completion.  Processes sharing the database interleave between a         *)
(* handler's reads and its commit, so a handler that reads and then         *)
(* inserts is two steps; pend[p] holds what process p carries across.       *)

SomeProcessIdle == {p \in Procs : pend[p].pc = "idle"} # {}

\* POST /subnets/{id}/allocate up to db.add
AllocateScan(p, subnet_id, body) ==
    /\ pend[p].pc = "idle"
    /\ LET o == allocate_scan(subnet_id, body)
       IN  IF o.status = 0
           THEN /\ Load < MaxIPs
                /\ pend' = [pend EXCEPT ![p] =
                       [pc |-> "allocate", row |-> o.row, allocated |-> o.allocated]]
                /\ UNCHANGED <<subnets, ips, zones, last>>
           ELSE /\ UNCHANGED last
                /\ UNCHANGED <<subnets, ips, zones, pend>>

\* db.add, db.commit, db.refresh and the response of allocate_next_ip
AllocateInsert(p) ==
    /\ pend[p].pc = "allocate"
    /\ ips' = CommitIP(pend[p].row[1])
    /\ last' = CommitReply("allocate", pend[p].row[1], pend[p].allocated)
    /\ pend' = [pend EXCEPT ![p] = Idle]
    /\ UNCHANGED <<subnets, zones>>

\* POST /subnets/{id}/allocate served with no other request in between
Allocate(subnet_id, body) ==
    /\ SomeProcessIdle
    /\ LET o == allocate_scan(subnet_id, body)
       IN  IF o.status = 0
           THEN /\ Load < MaxIPs
                /\ ips' = CommitIP(o.row[1])
                /\ last' = CommitReply("allocate", o.row[1], o.allocated)
           ELSE /\ UNCHANGED last
                /\ UNCHANGED ips
    /\ UNCHANGED <<subnets, zones, pend>>

\* POST /ip-addresses/ up to db.add
CreateIPCheck(p, body) ==
    /\ pend[p].pc = "idle"
    /\ LET o == create_ip_check(body)
       IN  IF o.status = 0
           THEN /\ Load < MaxIPs
                /\ pend' = [pend EXCEPT ![p] =
                       [pc |-> "create_ip", row |-> o.row, allocated |-> <<>>]]
                /\ UNCHANGED <<subnets, ips, zones, last>>
           ELSE /\ UNCHANGED last
                /\ UNCHANGED <<subnets, ips, zones, pend>>

\* db.add, db.commit, db.refresh and the response of create_ip_address
CreateIPInsert(p) ==
    /\ pend[p].pc = "create_ip"
    /\ ips' = CommitIP(pend[p].row[1])
    /\ last' = CommitReply("create_ip", pend[p].row[1], <<>>)
    /\ pend' = [pend EXCEPT ![p] = Idle]
    /\ UNCHANGED <<subnets, zones>>

\* POST /ip-addresses/ served with no other request in between
CreateIP(body) ==
    /\ SomeProcessIdle
    /\ LET o == create_ip_check(body)
       IN  IF o.status = 0
           THEN /\ Load < MaxIPs
                /\ ips' = CommitIP(o.row[1])
                /\ last' = CommitReply("create_ip", o.row[1], <<>>)
           ELSE /\ UNCHANGED last
                /\ UNCHANGED ips
    /\ UNCHANGED <<subnets, zones, pend>>

\* lines 206-214: the handler up to db.commit; both fields are assigned
\* from the body
update_ip_check(ip_address_id, body) ==
    LET found == {r \in ips : r.id = ip_address_id}
    IN  IF found = {} THEN Outcome(404, "ip_not_found", None, <<>>)
        ELSE IF /\ body.dns_name # None
                /\ ~_assert_dns_name_in_zone(body.dns_name[1], ZoneNames)
        THEN Outcome(400, "zone", None, <<>>)
        ELSE LET ip == CHOOSE r \in found : TRUE
             IN  Outcome(0, "update",
                         Some([ip EXCEPT !.dns_name = body.dns_name,
                                         !.description = body.description]),
                         <<>>)

\* PUT /ip-addresses/{id}
UpdateIP(ip_address_id, body) ==
    /\ SomeProcessIdle
    /\ LET o == update_ip_check(ip_address_id, body)
       IN  IF o.status # 0
           THEN /\ UNCHANGED last
                /\ UNCHANGED ips
           ELSE LET new == o.row[1]
                IN  /\ ips' = {r \in ips : r.id # ip_address_id} \cup {new}
                    /\ last' = IF AddressStrRaises(new)
                               THEN Reply("update_ip", 500, "AddressValueError",
                                          Some(new), None, <<>>)
                               ELSE Reply("update_ip", 200, "ok",
                                          Some(new), Some(address_str(new)), <<>>)
    /\ UNCHANGED <<subnets, zones, pend>>

\* a delete that answers 204 and leaves the row in the table
DeleteIPKeepsRow(ip_address_id) ==
    /\ SomeProcessIdle
    /\ LET found == {r \in ips : r.id = ip_address_id}
       IN  IF found = {}
           THEN UNCHANGED last
           ELSE last' = Reply("delete_ip", 204, "deleted",
                              Some(CHOOSE r \in found : TRUE), None, <<>>)
    /\ UNCHANGED <<subnets, ips, zones, pend>>

\* DELETE /ip-addresses/{id}
DeleteIP(ip_address_id) ==
    /\ SomeProcessIdle
    /\ LET found == {r \in ips : r.id = ip_address_id}
       IN  IF found = {}
           THEN /\ UNCHANGED last
                /\ UNCHANGED ips
           ELSE /\ ips' = ips \ found
                /\ last' = Reply("delete_ip", 204, "deleted",
                                 Some(CHOOSE r \in found : TRUE), None, <<>>)
    /\ UNCHANGED <<subnets, zones, pend>>

\* request bodies of the address specifications: no name is stored, a
\* name outside every zone is refused
AllocateBodies ==
    {[dns_name |-> d, description |-> None] : d \in {None, Some(NameOutside)}}

CreateIPBodies ==
    {[address |-> a, subnet_id |-> s, dns_name |-> None, description |-> None] :
        a \in AddressInputs, s \in SubnetIdInputs}
    \cup
    {[address |-> V4(A10(1)), subnet_id |-> s, dns_name |-> Some(NameOutside),
      description |-> None] : s \in SubnetIdInputs}

UpdateIPBodies ==
    {[dns_name |-> d, description |-> None] : d \in {None, Some(NameOutside)}}

\* the table a sequence of create_subnet requests for the CIDRs leaves
FixtureTable(cidrs) ==
    {WithId(from_cidr(cidrs[i], "net", None), i) : i \in 1..Len(cidrs)}

Init ==
    /\ \E fx \in SubnetFixtures : subnets = FixtureTable(fx)
    /\ ips = {}
    /\ zones = {[id |-> 1, name |-> ZoneExample]}
    /\ pend = [p \in Procs |-> Idle]
    /\ last = NoReply

InitRace ==
    /\ \E fx \in RaceFixtures : subnets = FixtureTable(fx)
    /\ ips = {}
    /\ zones = {[id |-> 1, name |-> ZoneExample]}
    /\ pend = [p \in Procs |-> Idle]
    /\ last = NoReply

\* one request at a time
Next ==
    \/ \E s \in SubnetIdInputs, b \in AllocateBodies : Allocate(s, b)
    \/ \E b \in CreateIPBodies : CreateIP(b)
    \/ \E i \in IPIdInputs, b \in UpdateIPBodies : UpdateIP(i, b)
    \/ \E i \in IPIdInputs : DeleteIP(i)

Spec == Init /\ [][Next]_vars

\* requests of two processes interleaved
NextRace ==
    \/ \E p \in Procs :
        \/ \E s \in SubnetIdInputs, b \in AllocateBodies : AllocateScan(p, s, b)
        \/ AllocateInsert(p)
        \/ \E b \in CreateIPBodies : CreateIPCheck(p, b)
        \/ CreateIPInsert(p)
    \/ \E i \in IPIdInputs : DeleteIP(i)

SpecRace == InitRace /\ [][NextRace]_vars

-----------------------------------------------------------------------------
(* subnets.py: create_subnet                                               *)

\* SubnetCreate.validate_cidr: the CIDR is replaced by str(network), the
\* network address with the prefix length
validate_cidr(cidr) ==
    [cidr EXCEPT !.value = NetworkAddressOf(cidr.value, cidr.prefixlen, cidr.is_ipv6)]

\* Subnet.network_str: str(self.network), the CIDR string of a stored row,
\* as ip_network reads it back
network_str(subnet) ==
    Cidr([is_ipv6 |-> network(subnet).is_ipv6,
          value |-> network(subnet).network_address],
         network(subnet).prefixlen)

\* a lookup on the number instead of the 32-digit key
create_subnet_check_unpadded(body) ==
    LET existing == {s \in subnets :
            /\ s.network_address = NetworkAddressOf(
                   body.cidr.value, body.cidr.prefixlen, body.cidr.is_ipv6)
            /\ s.prefix_length = body.cidr.prefixlen}
    IN  IF existing # {} THEN Outcome(409, "exists", None, <<>>)
        ELSE Outcome(0, "insert",
                     Some(from_cidr(body.cidr, body.name, body.description)), <<>>)

\* lines 176-185: the handler up to db.add
create_subnet_check(body) ==
    LET existing == {s \in subnets :
            /\ s.network_address = _int_to_hex(NetworkAddressOf(
                   body.cidr.value, body.cidr.prefixlen, body.cidr.is_ipv6))
            /\ s.prefix_length = body.cidr.prefixlen}
    IN  IF existing # {} THEN Outcome(409, "exists", None, <<>>)
        ELSE Outcome(0, "insert",
                     Some(from_cidr(body.cidr, body.name, body.description)), <<>>)

\* the subnets table declares no constraint besides its primary key: the
\* commit stores the row
CommitSubnet(row) == subnets \cup {WithId(row, NextId(subnets))}

SubnetLoad ==
    Cardinality(subnets) + Cardinality({p \in Procs : pend[p].pc # "idle"})

\* POST /subnets/ up to db.add
CreateSubnetCheck(p, body) ==
    /\ pend[p].pc = "idle"
    /\ LET o == create_subnet_check(body)
       IN  IF o.status = 0
           THEN /\ SubnetLoad < MaxSubnets
                /\ pend' = [pend EXCEPT ![p] =
                       [pc |-> "create_subnet", row |-> o.row, allocated |-> <<>>]]
           ELSE /\ UNCHANGED pend
    /\ UNCHANGED <<subnets, ips, zones, last>>

\* db.add, db.commit, db.refresh and the response of create_subnet
CreateSubnetInsert(p) ==
    /\ pend[p].pc = "create_subnet"
    /\ subnets' = CommitSubnet(pend[p].row[1])
    /\ last' = Reply("create_subnet", 201, "created",
                     Some(WithId(pend[p].row[1], NextId(subnets))), None, <<>>)
    /\ pend' = [pend EXCEPT ![p] = Idle]
    /\ UNCHANGED <<ips, zones>>

\* CIDRs as submitted: 10.0.0.1/30 carries host bits, 0.0.0.0/8 and ::/8
\* have the same key and prefix length
CidrInputs ==
    { Cidr(V4(A10(0)), 30), Cidr(V4(A10(1)), 30), Cidr(V4(A10(0)), 31),
      Cidr(V6(A10(0)), 126), Cidr(V4(<<0>>), 8), Cidr(V6(<<0>>), 8) }

SubnetBodies ==
    {[name |-> "net", cidr |-> validate_cidr(c), description |-> None] :
        c \in CidrInputs}

InitEmpty ==
    /\ subnets = {}
    /\ ips = {}
    /\ zones = {}
    /\ pend = [p \in Procs |-> Idle]
    /\ last = NoReply

NextSubnets ==
    \E p \in Procs :
        \/ \E b \in SubnetBodies : CreateSubnetCheck(p, b)
        \/ CreateSubnetInsert(p)

\* create_subnet requests of two processes, from the empty database
SpecSubnets == InitEmpty /\ [][NextSubnets]_vars

-----------------------------------------------------------------------------
(* allocate requests only, one at a time, from an empty subnet             *)

AllocateBodiesStored ==
    {[dns_name |-> d, description |-> t] :
        d \in {None, Some(NameInside)}, t \in DescriptionInputs}

NextAlloc == \E s \in SubnetIdInputs, b \in AllocateBodiesStored : Allocate(s, b)

InitAlloc ==
    /\ \E fx \in {f \in SubnetFixtures : Len(f) = 1} : subnets = FixtureTable(fx)
    /\ ips = {}
    /\ zones = {[id |-> 1, name |-> ZoneExample]}
    /\ pend = [p \in Procs |-> Idle]
    /\ last = NoReply

SpecAlloc == InitAlloc /\ [][NextAlloc]_vars

-----------------------------------------------------------------------------
(* The zone-membership check on its own: both implementations applied to   *)
(* one name against one set of declared zones                              *)

\* declared zone names: "b.c", "b.c.", "a.b.c", "b.d"
ZoneNameList ==
    << ZoneExample,
       <<"b", ".", "c", ".">>,
       NameInside,
       <<"b", ".", "d">> >>

\* names put to the check: inside, raw-suffix only, equal, with trailing
\* dots, a single label, another zone, an empty first label, empty, dots only
MembershipNames ==
    { NameInside,
      NameOutside,
      ZoneExample,
      <<"b", ".", "c", ".">>,
      <<"a", ".", "b", ".", "c", ".", ".">>,
      <<"c">>,
      <<"a", ".", "b", ".", "d">>,
      <<".", "b", ".", "c">>,
      <<>>,
      <<".">> }

MembershipReply(name, in_zone, allocate_in_zone) ==
    [op |-> "membership", status |-> IF in_zone THEN 200 ELSE 400,
     detail |-> "membership", row |-> None, address |-> None, allocated |-> <<>>,
     name |-> name, in_zone |-> in_zone, allocate_in_zone |-> allocate_in_zone]

\* the check of create_ip_address / update_ip_address and the check inlined
\* in allocate_next_ip, on the same name and zone table
CheckMembership(name) ==
    /\ last' = MembershipReply(name,
                   _assert_dns_name_in_zone(name, ZoneNames),
                   AllocateDnsNameInZone(name, ZoneNames))
    /\ UNCHANGED <<subnets, ips, zones, pend>>

InitMembership ==
    /\ \E I \in {J \in SUBSET (1..Len(ZoneNameList)) : Cardinality(J) <= 2} :
           zones = {[id |-> i, name |-> ZoneNameList[i]] : i \in I}
    /\ subnets = {}
    /\ ips = {}
    /\ pend = [p \in Procs |-> Idle]
    /\ last = NoReply

NextMembership == \E name \in MembershipNames : CheckMembership(name)

SpecMembership == InitMembership /\ [][NextMembership]_vars

-----------------------------------------------------------------------------
(* dns_zones.py: validation of request bodies                              *)

\* the characters [a-zA-Z0-9] that names of the model are written with
Alnum == {"a", "b", "c", "d", "h", "n", "0", "9"}

RECURSIVE split(_)
\* str.split("."): the pieces between the dots, empty pieces included
split(s) ==
    IF \A i \in 1..Len(s) : s[i] # "." THEN <<s>>
    ELSE LET k == CHOOSE i \in 1..Len(s) :
                      /\ s[i] = "."
                      /\ \A j \in 1..(i - 1) : s[j] # "."
         IN  <<SubSeq(s, 1, k - 1)>> \o split(SubSeq(s, k + 1, Len(s)))

\* _DNS_LABEL_RE.match(label): ^[a-zA-Z0-9]([a-zA-Z0-9-]{0,61}[a-zA-Z0-9])?$
\* where $ also matches before one final newline
_DNS_LABEL_RE(label) ==
    LET core == IF label # <<>> /\ label[Len(label)] = "\n"
                THEN Front(label) ELSE label
    IN  /\ Len(core) >= 1
        /\ Len(core) <= 63
        /\ core[1] \in Alnum
        /\ core[Len(core)] \in Alnum
        /\ \A i \in 1..Len(core) : core[i] \in Alnum \cup {"-"}

\* _validate_zone_name: TRUE when it returns the name, FALSE when it raises
_validate_zone_name(name) ==
    LET labels == split(rstrip(name))
    IN  /\ Len(name) <= 253
        /\ Len(labels) >= 2
        /\ \A i \in 1..Len(labels) : _DNS_LABEL_RE(labels[i])

\* _validate_dns_hostname: the same rule for SOA mname and rname
_validate_dns_hostname(value) ==
    LET labels == split(rstrip(value))
    IN  /\ Len(value) <= 253
        /\ Len(labels) >= 2
        /\ \A i \in 1..Len(labels) : _DNS_LABEL_RE(labels[i])

\* a Python int too wide for the model checker's integers: sign and
\* magnitude, the magnitude as hex digits
PyInt(neg, mag) == [neg |-> neg, mag |-> mag]

\* 4294967295
SerialMax == <<15, 15, 15, 15, 15, 15, 15, 15>>

\* a validator that forgets the upper bound
validate_serial_no_upper(v) == ~(v.neg /\ v.mag # <<0>>)

\* SOAFields.validate_serial: v < 0 or v > 4294967295 raises
validate_serial(v) ==
    ~(\/ v.neg /\ v.mag # <<0>>
      \/ ~v.neg /\ IntLess(SerialMax, v.mag))

\* SOAFields.validate_positive_int: v < 1 raises
validate_positive_int(v) == ~(v < 1)

\* SOAFields as pydantic builds it: mname and rname are required, a field
\* left out takes its default
SOAFields(mname, rname, serial, refresh, retry, expire, minimum) ==
    [mname |-> mname,
     rname |-> rname,
     serial |-> IF serial = None THEN PyInt(FALSE, <<1>>) ELSE serial[1],
     refresh |-> IF refresh = None THEN 3600 ELSE refresh[1],
     retry |-> IF retry = None THEN 600 ELSE retry[1],
     expire |-> IF expire = None THEN 604800 ELSE expire[1],
     minimum |-> IF minimum = None THEN 86400 ELSE minimum[1]]

\* every field validator of SOAFields passes
SOAFieldsValid(soa) ==
    /\ _validate_dns_hostname(soa.mname)
    /\ _validate_dns_hostname(soa.rname)
    /\ validate_serial(soa.serial)
    /\ validate_positive_int(soa.refresh)
    /\ validate_positive_int(soa.retry)
    /\ validate_positive_int(soa.expire)
    /\ validate_positive_int(soa.minimum)

\* DNSZoneCreate: name and soa are validated
DNSZoneCreateValid(body) ==
    /\ _validate_zone_name(body.name)
    /\ SOAFieldsValid(body.soa)

\* DNSZoneUpdate: name and soa are validated when given
DNSZoneUpdateValid(body) ==
    /\ body.name # None => _validate_zone_name(body.name[1])
    /\ body.soa # None => SOAFieldsValid(body.soa[1])

-----------------------------------------------------------------------------
(* dns_zones.py: create_dns_zone, update_dns_zone, delete_dns_zone          *)

\* zone rows the model lets the table grow to
MaxZones == 2

\* the response of a zone request that reached its commit, with the body it
\* carried
ZoneReply(op, status, detail, row, body) ==
    [op |-> op, status |-> status, detail |-> detail, row |-> row,
     address |-> None, allocated |-> <<>>, body |-> body]

\* lines 197-207: the row built from the body
ZoneRow(body) ==
    [name |-> body.name,
     description |-> body.description,
     soa_mname |-> body.soa.mname,
     soa_rname |-> body.soa.rname,
     soa_serial |-> body.soa.serial,
     soa_refresh |-> body.soa.refresh,
     soa_retry |-> body.soa.retry,
     soa_expire |-> body.soa.expire,
     soa_minimum |-> body.soa.minimum]

\* lines 190-207: body validation (422) and the handler up to db.add
create_zone_check(body) ==
    IF ~DNSZoneCreateValid(body) THEN Outcome(422, "validation", None, <<>>)
    ELSE IF \E z \in zones : z.name = body.name
    THEN Outcome(409, "exists", None, <<>>)
    ELSE Outcome(0, "insert", Some(ZoneRow(body)), <<>>)

\* lines 229-238
WithName(zone, body) ==
    IF body.name # None THEN [zone EXCEPT !.name = body.name[1]] ELSE zone

\* lines 240-241
WithDescription(zone, body) ==
    IF body.description # None
    THEN [zone EXCEPT !.description = body.description]
    ELSE zone

\* lines 243-250
WithSoa(zone, body) ==
    IF body.soa # None
    THEN [zone EXCEPT !.soa_mname = body.soa[1].mname,
                      !.soa_rname = body.soa[1].rname,
                      !.soa_serial = body.soa[1].serial,
                      !.soa_refresh = body.soa[1].refresh,
                      !.soa_retry = body.soa[1].retry,
                      !.soa_expire = body.soa[1].expire,
                      !.soa_minimum = body.soa[1].minimum]
    ELSE zone

\* a rename that looks no other zone up
update_zone_check_no_lookup(zone_id, body) ==
    LET found == {z \in zones : z.id = zone_id}
    IN  IF ~DNSZoneUpdateValid(body) THEN Outcome(422, "validation", None, <<>>)
        ELSE IF found = {} THEN Outcome(404, "zone_not_found", None, <<>>)
        ELSE LET zone == CHOOSE z \in found : TRUE
             IN  Outcome(0, "update",
                         Some(WithSoa(WithDescription(WithName(zone, body), body), body)),
                         <<>>)

\* an update that assigns the description whether given or not
update_zone_check_assigns_all(zone_id, body) ==
    LET found == {z \in zones : z.id = zone_id}
    IN  IF ~DNSZoneUpdateValid(body) THEN Outcome(422, "validation", None, <<>>)
        ELSE IF found = {} THEN Outcome(404, "zone_not_found", None, <<>>)
        ELSE LET zone == CHOOSE z \in found : TRUE
             IN  IF /\ body.name # None
                    /\ body.name[1] # zone.name
                    /\ \E z \in zones : z.name = body.name[1]
                 THEN Outcome(409, "exists", None, <<>>)
                 ELSE Outcome(0, "update",
                          Some([WithSoa(WithName(zone, body), body)
                                    EXCEPT !.description = body.description]),
                          <<>>)

\* lines 220-250: body validation (422) and the handler up to db.commit
update_zone_check(zone_id, body) ==
    LET found == {z \in zones : z.id = zone_id}
    IN  IF ~DNSZoneUpdateValid(body) THEN Outcome(422, "validation", None, <<>>)
        ELSE IF found = {} THEN Outcome(404, "zone_not_found", None, <<>>)
        ELSE LET zone == CHOOSE z \in found : TRUE
             IN  IF /\ body.name # None
                    /\ body.name[1] # zone.name
                    /\ \E z \in zones : z.name = body.name[1]
                 THEN Outcome(409, "exists", None, <<>>)
                 ELSE Outcome(0, "update",
                          Some(WithSoa(WithDescription(WithName(zone, body), body), body)),
                          <<>>)

\* POST /dns-zones/
CreateZone(body) ==
    /\ SomeProcessIdle
    /\ LET o == create_zone_check(body)
       IN  IF o.status # 0
           THEN /\ UNCHANGED zones
                /\ UNCHANGED last
           ELSE /\ Cardinality(zones) < MaxZones
                /\ zones' = zones \cup {WithId(o.row[1], NextId(zones))}
                /\ last' = ZoneReply("create_zone", 201, "created",
                               Some(WithId(o.row[1], NextId(zones))), Some(body))
    /\ UNCHANGED <<subnets, ips, pend>>

\* PUT /dns-zones/{zone_id}
UpdateZone(zone_id, body) ==
    /\ SomeProcessIdle
    /\ LET o == update_zone_check(zone_id, body)
       IN  IF o.status # 0
           THEN /\ UNCHANGED zones
                /\ UNCHANGED last
           ELSE /\ zones' = {z \in zones : z.id # zone_id} \cup {o.row[1]}
                /\ last' = ZoneReply("update_zone", 200, "ok", o.row, Some(body))
    /\ UNCHANGED <<subnets, ips, pend>>

\* a delete that also clears the names that fell within the zone
DeleteZoneClearingNames(zone_id) ==
    /\ SomeProcessIdle
    /\ LET found == {z \in zones : z.id = zone_id}
       IN  IF found = {}
           THEN /\ UNCHANGED zones
                /\ UNCHANGED last
                /\ UNCHANGED ips
           ELSE /\ zones' = zones \ found
                /\ ips' = {IF /\ r.dns_name # None
                              /\ _assert_dns_name_in_zone(r.dns_name[1],
                                     {z.name : z \in found})
                           THEN [r EXCEPT !.dns_name = None] ELSE r : r \in ips}
                /\ last' = ZoneReply("delete_zone", 204, "deleted",
                               Some(CHOOSE z \in found : TRUE), None)
    /\ UNCHANGED <<subnets, pend>>

\* DELETE /dns-zones/{zone_id}: 404 for an unknown id, else the row is
\* deleted; the handler touches no other table
DeleteZone(zone_id) ==
    /\ SomeProcessIdle
    /\ LET found == {z \in zones : z.id = zone_id}
       IN  IF found = {}
           THEN /\ UNCHANGED zones
                /\ UNCHANGED last
           ELSE /\ zones' = zones \ found
                /\ last' = ZoneReply("delete_zone", 204, "deleted",
                               Some(CHOOSE z \in found : TRUE), None)
    /\ UNCHANGED <<subnets, ips, pend>>

-----------------------------------------------------------------------------
(* zone requests only, one at a time, from an empty zone table             *)

\* "b.c", "b.c." and "b.d" are zone names; "c" has one label and "-b.c" a
\* label that starts with a hyphen
ZoneNameInputs ==
    { ZoneExample,
      <<"b", ".", "c", ".">>,
      <<"b", ".", "d">>,
      <<"c">>,
      <<"-", "b", ".", "c">> }

\* "n.b.c" and "h.b.c"
MnameExample == <<"n", ".", "b", ".", "c">>

RnameExample == <<"h", ".", "b", ".", "c">>

\* SOA objects of request bodies: the defaults; the least values allowed with
\* the greatest serial; then one field out of bounds each: serial -1,
\* serial 4294967296, refresh 0, retry 0, expire 0, minimum -1, mname "n"
SoaValidInputs ==
    { SOAFields(MnameExample, RnameExample, None, None, None, None, None),
      SOAFields(MnameExample, RnameExample, Some(PyInt(FALSE, SerialMax)),
                Some(1), Some(1), Some(1), Some(1)) }

SoaInvalidInputs ==
    { SOAFields(MnameExample, RnameExample, Some(PyInt(TRUE, <<1>>)),
                None, None, None, None),
      SOAFields(MnameExample, RnameExample, Some(PyInt(FALSE, IntSucc(SerialMax))),
                None, None, None, None),
      SOAFields(MnameExample, RnameExample, None, Some(0), None, None, None),
      SOAFields(MnameExample, RnameExample, None, None, Some(0), None, None),
      SOAFields(MnameExample, RnameExample, None, None, None, Some(0), None),
      SOAFields(MnameExample, RnameExample, None, None, None, None, Some(0 - 1)),
      SOAFields(<<"n">>, RnameExample, None, None, None, None, None) }

SoaInputs == SoaValidInputs \cup SoaInvalidInputs

ZoneCreateBodies(names, soas) ==
    {[name |-> n, description |-> d, soa |-> soa] :
        n \in names, d \in DescriptionInputs, soa \in soas}

ZoneUpdateBodies(names, soas) ==
    {[name |-> n, description |-> d, soa |-> soa] :
        n \in {None} \cup {Some(x) : x \in names},
        d \in DescriptionInputs,
        soa \in {None} \cup {Some(x) : x \in soas}}

ZoneIdInputs == 1..(MaxZones + 1)

\* requests that vary the zone name, valid and invalid, with the default SOA
NameCreateBodies ==
    ZoneCreateBodies(ZoneNameInputs,
        {SOAFields(MnameExample, RnameExample, None, None, None, None, None)})

NameUpdateBodies ==
    ZoneUpdateBodies(ZoneNameInputs,
        {SOAFields(MnameExample, RnameExample, None, None, None, None, None)})

NextZoneNames ==
    \/ \E b \in NameCreateBodies : CreateZone(b)
    \/ \E id \in ZoneIdInputs, b \in NameUpdateBodies : UpdateZone(id, b)

SpecZoneNames == InitEmpty /\ [][NextZoneNames]_vars

\* requests that vary description and SOA, valid and invalid, over the zone
\* names "b.c" and "b.d"
FieldCreateBodies ==
    ZoneCreateBodies({ZoneExample, <<"b", ".", "d">>}, SoaInputs)

FieldUpdateBodies ==
    ZoneUpdateBodies({ZoneExample, <<"b", ".", "d">>}, SoaInputs)

NextZoneFields ==
    \/ \E b \in FieldCreateBodies : CreateZone(b)
    \/ \E id \in ZoneIdInputs, b \in FieldUpdateBodies : UpdateZone(id, b)

SpecZoneFields == InitEmpty /\ [][NextZoneFields]_vars

-----------------------------------------------------------------------------
(* address records that carry names and descriptions, in 10.0.0.0/30,      *)
(* while the zone "b.c" is deleted and declared again                      *)

NamedAllocateBodies == AllocateBodiesStored

NamedUpdateBodies ==
    {[dns_name |-> d, description |-> t] :
        d \in DnsNameInputs, t \in DescriptionInputs}

ZoneExampleBody ==
    [name |-> ZoneExample, description |-> None,
     soa |-> SOAFields(MnameExample, RnameExample, None, None, None, None, None)]

InitNames ==
    /\ subnets = FixtureTable(<<Cidr(V4(A10(0)), 30)>>)
    /\ ips = {}
    /\ zones = {WithId(ZoneRow(ZoneExampleBody), 1)}
    /\ pend = [p \in Procs |-> Idle]
    /\ last = NoReply

NextNames ==
    \/ \E s \in SubnetIdInputs, b \in NamedAllocateBodies : Allocate(s, b)
    \/ \E id \in IPIdInputs, b \in NamedUpdateBodies : UpdateIP(id, b)
    \/ \E id \in IPIdInputs : DeleteIP(id)
    \/ \E id \in ZoneIdInputs : DeleteZone(id)
    \/ CreateZone(ZoneExampleBody)

SpecNames == InitNames /\ [][NextNames]_vars

-----------------------------------------------------------------------------
(* zone requests with deletion: ids over the life of the table             *)

\* GET /dns-zones/{zone_id}: 404 for an id no row has, else the row
get_zone_check(zone_id) ==
    LET found == {z \in zones : z.id = zone_id}
    IN  IF found = {} THEN Outcome(404, "zone_not_found", None, <<>>)
        ELSE Outcome(200, "ok", Some(CHOOSE z \in found : TRUE), <<>>)

NextZoneIds ==
    \/ \E b \in NameCreateBodies : CreateZone(b)
    \/ \E id \in ZoneIdInputs, b \in NameUpdateBodies : UpdateZone(id, b)
    \/ \E id \in ZoneIdInputs : DeleteZone(id)

SpecZoneIds == InitEmpty /\ [][NextZoneIds]_vars

-----------------------------------------------------------------------------
(* Subnet deletion.  The repository declares the cascade (Subnet.          *)
(* ip_addresses, cascade="all, delete-orphan") and the foreign key         *)
(* (IPAddress.subnet_id) but has no handler that deletes a subnet; the     *)
(* deletion below is the one the specification describes: the subnet and   *)
(* the address records it owns are removed within one transaction.         *)

DeleteSubnet(subnet_id) ==
    /\ SomeProcessIdle
    /\ LET found == {s \in subnets : s.id = subnet_id}
       IN  IF found = {}
           THEN /\ UNCHANGED subnets
                /\ UNCHANGED ips
                /\ UNCHANGED last
           ELSE /\ subnets' = subnets \ found
                /\ ips' = {r \in ips : r.subnet_id # subnet_id}
                /\ last' = Reply("delete_subnet", 204, "deleted",
                                 Some(CHOOSE s \in found : TRUE), None, <<>>)
    /\ UNCHANGED <<zones, pend>>

\* the commit of allocate_next_ip on an engine that enforces the foreign
\* key: a row whose subnet is gone is rejected (IntegrityError).  An engine
\* that does not enforce it (SQLite unless told otherwise) stores the row,
\* which is AllocateInsert.
AllocateInsertForeignKey(p) ==
    /\ pend[p].pc = "allocate"
    /\ \A s \in subnets : s.id # pend[p].row[1].subnet_id
    /\ last' = Reply("allocate", 500, "IntegrityError", pend[p].row, None,
                     pend[p].allocated)
    /\ pend' = [pend EXCEPT ![p] = Idle]
    /\ UNCHANGED <<subnets, ips, zones>>

InitCascade ==
    /\ subnets = FixtureTable(<<Cidr(V4(A10(0)), 30)>>)
    /\ ips = {}
    /\ zones = {[id |-> 1, name |-> ZoneExample]}
    /\ pend = [p \in Procs |-> Idle]
    /\ last = NoReply

NextCascade ==
    \/ \E p \in Procs :
           \/ \E s \in SubnetIdInputs, b \in AllocateBodiesStored :
                  AllocateScan(p, s, b)
           \/ AllocateInsert(p)
           \/ AllocateInsertForeignKey(p)
    \/ \E id \in IPIdInputs : DeleteIP(id)
    \/ \E s \in SubnetIdInputs : DeleteSubnet(s)

\* allocate requests of two processes interleaved with the deletion of the
\* subnet
SpecCascade == InitCascade /\ [][NextCascade]_vars

-----------------------------------------------------------------------------
(* subnets.py: the counts of a subnet response                             *)

\* _get_allocated_counts: the number of rows of the subnet
_get_allocated_counts(subnet_id) ==
    Cardinality({r \in ips : r.subnet_id = subnet_id})

\* _subnet_to_response: free_count = max(0, usable_hosts - allocated_count)
free_count(subnet) ==
    LET allocated_count == _get_allocated_counts(subnet.id)
    IN  IF usable_hosts(subnet) > allocated_count
        THEN usable_hosts(subnet) - allocated_count
        ELSE 0

InitCounts ==
    /\ subnets = FixtureTable(<<Cidr(V4(A10(0)), 30)>>)
    /\ ips = {}
    /\ zones = {[id |-> 1, name |-> ZoneExample]}
    /\ pend = [p \in Procs |-> Idle]
    /\ last = NoReply

NextCounts ==
    \/ \E s \in SubnetIdInputs, b \in AllocateBodies : Allocate(s, b)
    \/ \E b \in CreateIPBodies : CreateIP(b)
    \/ \E i \in IPIdInputs : DeleteIP(i)

\* registrations, allocations and deletions in the IPv4 subnet 10.0.0.0/30
SpecCounts == InitCounts /\ [][NextCounts]_vars

-----------------------------------------------------------------------------
(* ip_addresses.py: the request models and their dns_name validator        *)

\* _validate_dns_name: TRUE when it returns the name, FALSE when it raises
_validate_dns_name(name) ==
    LET labels == split(rstrip(name))
    IN  /\ Len(name) <= 253
        /\ Len(labels) >= 2
        /\ \A i \in 1..Len(labels) : _DNS_LABEL_RE(labels[i])

\* IPAddressCreate.validate_dns_name
IPAddressCreateValid(body) ==
    body.dns_name # None => _validate_dns_name(body.dns_name[1])

\* IPAddressUpdate.validate_dns_name
IPAddressUpdateValid(body) ==
    body.dns_name # None => _validate_dns_name(body.dns_name[1])

\* POST /ip-addresses/: the body is validated (422) before the handler runs
PostIPAddress(body) ==
    IF IPAddressCreateValid(body) THEN CreateIP(body) ELSE UNCHANGED vars

\* PUT /ip-addresses/{id}: the body is validated (422) before the handler
\* runs
PutIPAddress(ip_address_id, body) ==
    IF IPAddressUpdateValid(body) THEN UpdateIP(ip_address_id, body)
    ELSE UNCHANGED vars

\* "-a.b.c" is in the zone "b.c"; its first label starts with a hyphen
NameBadSyntax == <<"-", "a", ".", "b", ".", "c">>

SyntaxNames == {None, Some(NameInside), Some(NameBadSyntax)}

SyntaxAllocateBodies ==
    {[dns_name |-> d, description |-> None] : d \in SyntaxNames}

SyntaxCreateBodies ==
    {[address |-> V4(A10(k)), subnet_id |-> 1, dns_name |-> d,
      description |-> None] : k \in 1..2, d \in SyntaxNames}

NextSyntax ==
    \/ \E s \in SubnetIdInputs, b \in SyntaxAllocateBodies : Allocate(s, b)
    \/ \E b \in SyntaxCreateBodies : PostIPAddress(b)
    \/ \E i \in IPIdInputs, b \in SyntaxAllocateBodies : PutIPAddress(i, b)
    \/ \E i \in IPIdInputs : DeleteIP(i)

\* the three writers of dns_name on 10.0.0.0/30 with the zone "b.c", with
\* names of good and of bad syntax
SpecSyntax == InitCounts /\ [][NextSyntax]_vars

-----------------------------------------------------------------------------
(* two subnets that overlap: 10.0.0.0/30 and 10.0.0.0/31                   *)

InitOverlap ==
    /\ subnets = FixtureTable(<<Cidr(V4(A10(0)), 30), Cidr(V4(A10(0)), 31)>>)
    /\ ips = {}
    /\ zones = {[id |-> 1, name |-> ZoneExample]}
    /\ pend = [p \in Procs |-> Idle]
    /\ last = NoReply

SpecOverlap == InitOverlap /\ [][Next]_vars

-----------------------------------------------------------------------------
(* API keys.  auth._valid_keys is a module global of the server process:    *)
(* empty when the module is imported, loaded from IPAM_API_KEY by the       *)
(* lifespan of the application.  A process carries it from its startup to  *)
(* every request it serves, so it is kept with the process in pend[p].      *)
(* The three routers are included with Depends(verify_api_key): the         *)
(* dependency runs before the handler and its HTTPException ends the        *)
(* request.                                                                 *)

Whitespace == {" "}

RECURSIVE str_split(_, _)
\* s.split(sep) for a one-character separator
str_split(s, sep) ==
    IF \A i \in 1..Len(s) : s[i] # sep THEN <<s>>
    ELSE LET k == CHOOSE i \in 1..Len(s) :
                      /\ s[i] = sep
                      /\ \A j \in 1..(i - 1) : s[j] # sep
         IN  <<SubSeq(s, 1, k - 1)>> \o str_split(SubSeq(s, k + 1, Len(s)), sep)

RECURSIVE str_strip(_)
\* s.strip()
str_strip(s) ==
    IF s # <<>> /\ s[1] \in Whitespace THEN str_strip(Tail(s))
    ELSE IF s # <<>> /\ s[Len(s)] \in Whitespace THEN str_strip(Front(s))
    ELSE s

\* frozenset(k.strip() for k in raw.split(",") if k.strip())
load_keys(raw) ==
    LET parts == str_split(raw, ",")
    IN  {str_strip(parts[i]) : i \in 1..Len(parts)} \ {<<>>}

\* a dependency that takes any bearer credential once a key is configured
verify_api_key_any_bearer(_valid_keys, creds) ==
    IF _valid_keys = {}
    THEN Outcome(500, "Server misconfiguration: IPAM_API_KEY is not set", None, <<>>)
    ELSE IF creds = None
         THEN Outcome(401, "Invalid or missing API key", None, <<>>)
         ELSE Outcome(0, "ok", None, <<>>)

\* verify_api_key: status 0 lets the handler run.  creds is None when the
\* request has no bearer credential (HTTPBearer(auto_error=False))
verify_api_key(_valid_keys, creds) ==
    IF _valid_keys = {}
    THEN Outcome(500, "Server misconfiguration: IPAM_API_KEY is not set", None, <<>>)
    ELSE IF creds = None \/ creds[1] \notin _valid_keys
         THEN Outcome(401, "Invalid or missing API key", None, <<>>)
         ELSE Outcome(0, "ok", None, <<>>)

\* an idle process and the key set it holds
Started(_valid_keys) ==
    [pc |-> "idle", row |-> None, allocated |-> <<>>, _valid_keys |-> _valid_keys]

\* lifespan: a process starts, or starts again, in an environment
lifespan(p, raw) ==
    /\ pend[p].pc = "idle"
    /\ pend' = [pend EXCEPT ![p] = Started(load_keys(raw))]
    /\ UNCHANGED <<subnets, ips, zones, last>>

\* the HTTPException of the dependency is the whole response
Unauthorized(p, creds) ==
    LET v == verify_api_key(pend[p]._valid_keys, creds)
    IN  /\ v.status # 0
        /\ last' = Reply("verify_api_key", v.status, v.detail, None, None, <<>>)
        /\ UNCHANGED <<subnets, ips, zones, pend>>

\* GET /dns-zones/{id}
GetZone(zone_id) ==
    LET o == get_zone_check(zone_id)
    IN  /\ last' = Reply("get_zone", o.status, o.detail, o.row, None, <<>>)
        /\ UNCHANGED <<subnets, ips, zones, pend>>

\* app.include_router(subnets_router, dependencies=[Depends(verify_api_key)])
subnets_router(p, creds) ==
    IF verify_api_key(pend[p]._valid_keys, creds).status # 0
    THEN Unauthorized(p, creds)
    ELSE \E s \in SubnetIdInputs :
             Allocate(s, [dns_name |-> None, description |-> None])

\* app.include_router(ip_addresses_router, dependencies=[Depends(verify_api_key)])
ip_addresses_router(p, creds) ==
    IF verify_api_key(pend[p]._valid_keys, creds).status # 0
    THEN Unauthorized(p, creds)
    ELSE \E id \in IPIdInputs : DeleteIP(id)

\* app.include_router(dns_zones_router, dependencies=[Depends(verify_api_key)])
dns_zones_router(p, creds) ==
    IF verify_api_key(pend[p]._valid_keys, creds).status # 0
    THEN Unauthorized(p, creds)
    ELSE \/ \E id \in ZoneIdInputs : GetZone(id)
         \/ \E id \in ZoneIdInputs : DeleteZone(id)
         \/ CreateZone(ZoneExampleBody)

Key1 == <<"k", "1">>
Key2 == <<"k", "2">>
KeyUnknown == <<"z", "z">>

\* IPAM_API_KEY: unset, blank entries only, one key, two keys with blanks
EnvInputs ==
    {<<>>,
     <<" ", ",", " ">>,
     Key1,
     <<" ">> \o Key1 \o <<" ", ",">> \o Key2 \o <<",">>}

\* no bearer credential, a configured key, an unknown one
CredentialInputs == {None, Some(Key1), Some(Key2), Some(KeyUnknown)}

\* the module is imported: _valid_keys = frozenset()
InitAuth ==
    /\ subnets = FixtureTable(<<Cidr(V4(A10(0)), 30)>>)
    /\ ips = {}
    /\ zones = {WithId(ZoneRow(ZoneExampleBody), 1)}
    /\ pend = [p \in Procs |-> Started({})]
    /\ last = NoReply

NextAuth ==
    \/ \E p \in Procs, raw \in EnvInputs : lifespan(p, raw)
    \/ \E p \in Procs, creds \in CredentialInputs : subnets_router(p, creds)
    \/ \E p \in Procs, creds \in CredentialInputs : ip_addresses_router(p, creds)
    \/ \E p \in Procs, creds \in CredentialInputs : dns_zones_router(p, creds)

SpecAuth == InitAuth /\ [][NextAuth]_vars

-----------------------------------------------------------------------------
(* What the claims speak of                                                *)

RECURSIVE RangeSet(_, _)
\* the integers a..b
RangeSet(a, b) ==
    IF IntLess(b, a) THEN {} ELSE {a} \cup RangeSet(IntSucc(a), b)

\* the usable-range rule: the whole network for a prefix length of at least
\* max_bits - 1, else the network without its first and last address
UsableSet(subnet) ==
    LET net == network(subnet)
    IN  IF subnet.prefix_length >= max_prefix(subnet.is_ipv6) - 1
        THEN RangeSet(net.network_address, net.broadcast_address)
        ELSE RangeSet(IntSucc(net.network_address), IntPred(net.broadcast_address))

SubnetOfId(id) == CHOOSE s \in subnets : s.id = id

\* the addresses registered in a subnet, as integers
Registered(subnet_id, table) ==
    {StripZeros(r.address) : r \in {x \in table : x.subnet_id = subnet_id}}

FreeUsable(subnet, table) == UsableSet(subnet) \ Registered(subnet.id, table)

AllocateSucceeded == last.op = "allocate" /\ last.status = 201

NoBody == [dns_name |-> None, description |-> None]

\* C1: a successful allocate returns and persists the numerically lowest
\* address of the subnet's usable range that was not registered in the
\* subnet when the request scanned it.
C1_AllocateLowestFree ==
    AllocateSucceeded =>
        LET row == last.row[1]
            subnet == SubnetOfId(row.subnet_id)
            free == FreeUsable(subnet, ips \ {row})
        IN  /\ row \in ips
            /\ Len(row.address) = _HEX_LEN
            /\ last.address = Some([is_ipv6 |-> subnet.is_ipv6,
                                    value |-> StripZeros(row.address)])
            /\ StripZeros(row.address) \in free
            /\ \A v \in free : IntLeq(StripZeros(row.address), v)

\* allocate filled a gap below a registered address
C1_Witness ==
    /\ AllocateSucceeded
    /\ \E r \in ips : /\ r.subnet_id = last.row[1].subnet_id
                      /\ r.id < last.row[1].id
                      /\ IntLess(StripZeros(last.row[1].address), StripZeros(r.address))

\* C2: whatever the interleaving of allocate requests, no two IPAddress rows
\* hold the same address key, and a request answered with success is the only
\* holder of the address it was given.
C2_AtMostOnePerKey ==
    /\ \A r1, r2 \in ips : r1.address = r2.address => r1 = r2
    /\ (last.status = 201 /\ last.op \in {"allocate", "create_ip"}) =>
           {r \in ips : r.address = last.row[1].address} = {last.row[1]}

\* two requests picked the same candidate and the second insert was rejected
C2_Witness ==
    /\ last.op = "allocate"
    /\ last.detail = "IntegrityError"
    /\ \E r \in ips : r.address = last.row[1].address

\* C3: an allocate request whose insert is rejected by the unique constraint
\* while the subnet still has free usable addresses is retried and ends with
\* a successful allocation.
C3_RaceLoserIsServed ==
    (/\ last.op = "allocate"
     /\ last.detail = "IntegrityError"
     /\ FreeUsable(SubnetOfId(last.row[1].subnet_id), ips) # {})
        => last.status = 201

\* C4: when every address of a subnet's usable range is registered in the
\* subnet, allocate answers 409 (exhausted) and goes on to no insert.
C4_FullSubnetIsExhausted ==
    \A s \in subnets :
        FreeUsable(s, ips) = {} =>
            /\ allocate_scan(s.id, NoBody).status = 409
            /\ allocate_scan(s.id, NoBody).detail = "exhausted"

\* C5: from an empty subnet with n usable addresses, successive allocate
\* calls hand out the usable addresses in ascending order (the k-th row holds
\* the k-th usable address), and once n are out the next call is answered
\* exhausted; 10.0.0.0/30 gives 10.0.0.1, 10.0.0.2, and 10.0.0.0/31 gives
\* 10.0.0.0 and 10.0.0.1.
C5_AscendingThenExhausted ==
    \A s \in subnets :
        /\ \A r \in ips :
               /\ StripZeros(r.address) \in UsableSet(s)
               /\ Cardinality({v \in UsableSet(s) : IntLeq(v, StripZeros(r.address))})
                      = r.id
        /\ Cardinality(ips) >= Cardinality(UsableSet(s)) =>
               allocate_scan(s.id, NoBody).status = 409
        /\ (s.prefix_length = 30 /\ ~s.is_ipv6 /\ s.network_address = _int_to_hex(A10(0))) =>
               {<<r.id, StripZeros(r.address)>> : r \in ips}
                   \subseteq {<<1, A10(1)>>, <<2, A10(2)>>}
        /\ (s.prefix_length = 31 /\ ~s.is_ipv6 /\ s.network_address = _int_to_hex(A10(0))) =>
               {<<r.id, StripZeros(r.address)>> : r \in ips}
                   \subseteq {<<1, A10(0)>>, <<2, A10(1)>>}

\* C6: every address allocate returns lies in the usable range of its
\* subnet; for a prefix length below max_bits - 1 it is neither the network
\* nor the broadcast address.
C6_ReturnedAddressUsable ==
    AllocateSucceeded =>
        LET subnet == SubnetOfId(last.row[1].subnet_id)
            net == network(subnet)
            value == last.address[1].value
        IN  /\ last.address[1].is_ipv6 = subnet.is_ipv6
            /\ value \in UsableSet(subnet)
            /\ subnet.prefix_length < max_prefix(subnet.is_ipv6) - 1 =>
                   /\ value # net.network_address
                   /\ value # net.broadcast_address

\* allocate served a subnet whose network address is free and skipped it
C6_Witness ==
    /\ AllocateSucceeded
    /\ LET subnet == SubnetOfId(last.row[1].subnet_id)
       IN  /\ subnet.prefix_length < max_prefix(subnet.is_ipv6) - 1
           /\ network(subnet).network_address
                  \notin {StripZeros(r.address) : r \in ips}

\* C7: first_usable, last_usable and usable_hosts of the Subnet model follow
\* the usable-range rule, for IPv6 /127 too.
C7_ModelFollowsUsableRule ==
    \A s \in subnets :
        /\ first_usable(s) \in UsableSet(s)
        /\ last_usable(s) \in UsableSet(s)
        /\ \A v \in UsableSet(s) : IntLeq(first_usable(s), v) /\ IntLeq(v, last_usable(s))
        /\ usable_hosts(s) = Cardinality(UsableSet(s))

\* C8: every stored IPAddress row has a key within network..broadcast of its
\* owning subnet and the family flag of that subnet.
C8_RowsInsideTheirSubnet ==
    \A r \in ips :
        \E s \in subnets :
            /\ s.id = r.subnet_id
            /\ r.is_ipv6 = s.is_ipv6
            /\ IntLeq(network(s).network_address, StripZeros(r.address))
            /\ IntLeq(StripZeros(r.address), network(s).broadcast_address)

\* the address is registered, in whatever subnet
AddressRegistered(address) ==
    \E r \in ips : /\ r.is_ipv6 = address.is_ipv6
                   /\ StripZeros(r.address) = address.value

\* C9 as claimed: create_ip_address for a registered address is answered 409.
C9_DuplicateIs409 ==
    \A b \in CreateIPBodies :
        AddressRegistered(b.address) => create_ip_check(b).status = 409

\* C9 as amended: no address is registered twice, in whatever subnets, and
\* create_ip_address for a registered address never reaches an insert; it is answered 404 when the subnet id is unknown, else 400 when
\* its dns_name is in no zone, else 409.
C9_DuplicateIsRefused ==
    /\ \A r1, r2 \in ips :
           (r1.address = r2.address /\ r1.is_ipv6 = r2.is_ipv6) => r1 = r2
    /\ \A b \in CreateIPBodies :
        AddressRegistered(b.address) =>
            LET o == create_ip_check(b)
            IN  /\ o.row = None
                /\ o.status =
                     IF \A s \in subnets : s.id # b.subnet_id THEN 404
                     ELSE IF /\ b.dns_name # None
                             /\ \A z \in ZoneNames :
                                    /\ b.dns_name[1] # z
                                    /\ ~endswith(b.dns_name[1], <<".">> \o z)
                          THEN 400
                     ELSE 409

\* create_ip_address registered an address; the same request again is a
\* duplicate
C9_Witness ==
    /\ last.op = "create_ip"
    /\ last.status = 201
    /\ \E b \in CreateIPBodies :
           /\ AddressRegistered(b.address)
           /\ b.subnet_id # last.row[1].subnet_id
           /\ create_ip_check(b).status = 409

\* C10: whatever the interleaving of create_subnet requests, no two Subnet
\* rows have the same (network_address, prefix_length).
C10_SubnetPairUnique ==
    \A s1, s2 \in subnets :
        (s1.network_address = s2.network_address
            /\ s1.prefix_length = s2.prefix_length) => s1 = s2

\* every bit of a stored key below the prefix length is zero
HostBitsZero(key, prefixlen, is_ipv6) ==
    LET f == FixedWidth(StripZeros(key), is_ipv6)
    IN  \A i \in 1..Len(f) : f[i] % Pow2(HostBits(i, prefixlen)) = 0

\* a submitted CIDR whose address is not its network address
CarriesHostBits(cidr) ==
    ~HostBitsZero(cidr.value, cidr.prefixlen, cidr.is_ipv6)

\* C11: every stored Subnet's network_address has all bits below
\* prefix_length zero, and so has the row create_subnet builds from any
\* submitted CIDR, whatever host bits it carried.
C11_NetworkAddressNormalised ==
    /\ \A s \in subnets :
           HostBitsZero(s.network_address, s.prefix_length, s.is_ipv6)
    /\ \A c \in CidrInputs :
           LET row == from_cidr(validate_cidr(c), "net", None)
           IN  /\ HostBitsZero(row.network_address, row.prefix_length, row.is_ipv6)
               /\ row.prefix_length = c.prefixlen
               /\ row.is_ipv6 = c.is_ipv6

\* a subnet is stored that a CIDR with host bits set creates
C11_Witness ==
    /\ last.op = "create_subnet"
    /\ \E c \in CidrInputs :
           /\ CarriesHostBits(c)
           /\ create_subnet_check([name |-> "net", cidr |-> validate_cidr(c),
                                   description |-> None]).status = 409
           /\ \E s \in subnets :
                  /\ s.prefix_length = c.prefixlen
                  /\ s.is_ipv6 = c.is_ipv6
                  /\ IntLeq(StripZeros(s.network_address), c.value)
                  /\ s = last.row[1]

\* a name without its trailing dots: the prefix that ends in no dot and is
\* followed by dots only
WithoutTrailingDots(s) ==
    CHOOSE t \in {SubSeq(s, 1, k) : k \in 0..Len(s)} :
        /\ t = <<>> \/ t[Len(t)] # "."
        /\ \A i \in (Len(t) + 1)..Len(s) : s[i] = "."

\* label-boundary match of a name against one zone, trailing dots ignored
InZone(name, zone_name) ==
    LET n == WithoutTrailingDots(name)
        z == WithoutTrailingDots(zone_name)
    IN  \/ n = z
        \/ /\ Len(n) > Len(z)
           /\ n[Len(n) - Len(z)] = "."
           /\ \A i \in 1..Len(z) : n[Len(n) - Len(z) + i] = z[i]

\* C12: the zone-membership check accepts a name iff, trailing dots ignored
\* on both sides, the name equals a declared zone name or ends with "."
\* followed by it; "a.b.c" is in zone "b.c" and "ab.c" is not; the check of
\* create/update and the one inlined in allocate give the same answer.
C12_MembershipIsLabelBoundaryMatch ==
    /\ last.op = "membership" =>
           /\ last.in_zone = (\E z \in ZoneNames : InZone(last.name, z))
           /\ last.allocate_in_zone = (\E z \in ZoneNames : InZone(last.name, z))
    /\ _assert_dns_name_in_zone(NameInside, {ZoneExample})
    /\ AllocateDnsNameInZone(NameInside, {ZoneExample})
    /\ ~_assert_dns_name_in_zone(NameOutside, {ZoneExample})
    /\ ~AllocateDnsNameInZone(NameOutside, {ZoneExample})

\* a name that ends with a declared zone name, but not at a label boundary,
\* was put to the check
C12_Witness ==
    /\ last.op = "membership"
    /\ \E z \in ZoneNames :
           /\ endswith(last.name, z)
           /\ ~InZone(last.name, z)
    /\ ~last.in_zone

\* the name belongs to no currently declared zone
InNoZone(dns_name) ==
    /\ dns_name # None
    /\ \A z \in ZoneNames : ~InZone(dns_name[1], z)

C14_ZoneDeleteTouchesOnlyZone ==
    [][(\E z \in zones : z \notin zones' /\ \A n \in zones' : n.id # z.id) =>
           /\ \E z \in zones : zones' = zones \ {z}
           /\ ips' = ips
           /\ subnets' = subnets]_vars

\* the zone was deleted and a record still carries a name within it
C14_Witness ==
    /\ last.op = "delete_zone"
    /\ zones = {}
    /\ \E r \in ips : /\ r.dns_name # None
                      /\ InZone(r.dns_name[1], last.row[1].name)

\* C15: in every reachable state, those reached by interleaving a subnet
\* deletion with an allocation against the same subnet included, every
\* IPAddress row refers to a subnet that exists.
C15_EveryRecordHasItsSubnet ==
    \A r \in ips : \E s \in subnets : s.id = r.subnet_id

IPDeleted == last.op = "delete_ip" /\ last.status = 204

\* the address a stored key stands for
AddressOfRow(row) == [is_ipv6 |-> row.is_ipv6, value |-> StripZeros(row.address)]

RecreateBody(row) ==
    [address |-> AddressOfRow(row), subnet_id |-> row.subnet_id,
     dns_name |-> None, description |-> None]

LowestFree(row) ==
    LET free == FreeUsable(SubnetOfId(row.subnet_id), ips)
    IN  /\ StripZeros(row.address) \in free
        /\ \A v \in free : IntLeq(StripZeros(row.address), v)

\* C16: after delete_ip_address the address of the deleted record is free:
\* no row holds its key, create_ip_address with that address in the same
\* subnet is accepted, and allocate on the subnet picks it when it is the
\* lowest free address of the usable range.
C16_DeletedAddressIsFree ==
    IPDeleted =>
        LET row == last.row[1]
        IN  /\ \A r \in ips : r.address # row.address /\ r.id # row.id
            /\ Len(row.address) = _HEX_LEN =>
                   LET o == create_ip_check(RecreateBody(row))
                   IN  /\ o.status = 0
                       /\ o.row[1].address = row.address
                       /\ o.row[1].subnet_id = row.subnet_id
            /\ LowestFree(row) =>
                   LET o == allocate_scan(row.subnet_id, NoBody)
                   IN  /\ o.status = 0
                       /\ o.row[1].address = row.address

\* the deleted address was the lowest free one while a higher address of
\* the subnet is still registered
C16_Witness ==
    /\ IPDeleted
    /\ LowestFree(last.row[1])
    /\ \E r \in ips : /\ r.subnet_id = last.row[1].subnet_id
                      /\ StrLess(last.row[1].address, r.address)

\* C17: under any sequence of create_dns_zone and update_dns_zone no two
\* stored zones have the same name; a create with a stored name and a rename
\* to another zone's name are answered 409 and write nothing; an update
\* that repeats the zone's own name goes through.
C17_ZoneNamesUnique ==
    /\ \A z1 \in zones, z2 \in zones : z1.name = z2.name => z1 = z2
    /\ \A b \in NameCreateBodies :
           (\E z \in zones : z.name = b.name) =>
               /\ create_zone_check(b).status = 409
               /\ create_zone_check(b).row = None
    /\ \A z \in zones, b \in NameUpdateBodies :
           b.name # None =>
               LET o == update_zone_check(z.id, b)
               IN  IF b.name[1] = z.name
                   THEN o.status = 0 /\ o.row[1].name = z.name
                   ELSE (\E y \in zones : y.name = b.name[1]) =>
                            o.status = 409 /\ o.row = None

\* two zones are stored and the last request was an update carrying the
\* name its zone has
C17_Witness ==
    /\ Cardinality(zones) = 2
    /\ last.op = "update_zone"
    /\ last.body[1].name = Some(last.row[1].name)
    /\ last.row[1] \in zones

SoaOf(zone) ==
    <<zone.soa_mname, zone.soa_rname, zone.soa_serial, zone.soa_refresh,
      zone.soa_retry, zone.soa_expire, zone.soa_minimum>>

\* C18: an update_dns_zone that goes through replaces the one zone by a row
\* that differs from it only in the top-level fields the body carries: name,
\* description, soa; every other zone is left as it was.
C18_UpdateZoneFrame ==
    [][(last'.op = "update_zone" /\ last' # last) =>
          LET body == last'.body[1]
              new == last'.row[1]
          IN  \E old \in zones :
                  /\ old.id = new.id
                  /\ zones' = (zones \ {old}) \cup {new}
                  /\ body.name = None => new.name = old.name
                  /\ body.description = None => new.description = old.description
                  /\ body.soa = None => SoaOf(new) = SoaOf(old)]_vars

\* a rename alone, of a zone that has a description and a serial of its
\* own, next to another zone
C18_Witness ==
    /\ last.op = "update_zone"
    /\ last.body[1].name # None
    /\ last.body[1].description = None
    /\ last.body[1].soa = None
    /\ last.row[1].description # None
    /\ last.row[1].soa_serial = PyInt(FALSE, SerialMax)
    /\ \E z \in zones : z.id # last.row[1].id

\* C19: update_ip_address changes only the fields its request carries:
\* whenever a stored record changes, the change is the effect of a request
\* that left dns_name as it was unless it carried one and description as
\* it was unless it carried one; address and subnet_id stay.
C19_UpdateIPFrame ==
    [][\A r \in ips, n \in ips' :
          (n.id = r.id /\ n # r) =>
              /\ n.address = r.address
              /\ n.subnet_id = r.subnet_id
              /\ \A b \in NamedUpdateBodies :
                     LET o == update_ip_check(r.id, b)
                     IN  (o.status = 0 /\ o.row[1] = n) =>
                             /\ b.dns_name = None => n.dns_name = r.dns_name
                             /\ b.description = None =>
                                    n.description = r.description]_vars

\* serial in [0, 4294967295] and the four intervals at least 1
SoaInBounds(serial, refresh, retry, expire, minimum) ==
    /\ serial.neg => serial.mag = <<0>>
    /\ IntLeq(serial.mag, SerialMax)
    /\ refresh >= 1
    /\ retry >= 1
    /\ expire >= 1
    /\ minimum >= 1

BodySoaInBounds(soa) ==
    SoaInBounds(soa.serial, soa.refresh, soa.retry, soa.expire, soa.minimum)

\* C20: under any sequence of zone creates and updates every stored zone has
\* its serial in [0, 4294967295] and refresh, retry, expire and minimum at
\* least 1; a create or update that carries a value outside these bounds is
\* answered 422 and writes nothing.
C20_SoaWithinBounds ==
    /\ \A z \in zones :
           SoaInBounds(z.soa_serial, z.soa_refresh, z.soa_retry,
                       z.soa_expire, z.soa_minimum)
    /\ \A b \in FieldCreateBodies :
           ~BodySoaInBounds(b.soa) =>
               /\ create_zone_check(b).status = 422
               /\ create_zone_check(b).row = None
    /\ \A id \in ZoneIdInputs, b \in FieldUpdateBodies :
           (b.soa # None /\ ~BodySoaInBounds(b.soa[1])) =>
               /\ update_zone_check(id, b).status = 422
               /\ update_zone_check(id, b).row = None

\* an update stored the greatest serial and the least intervals
C20_Witness ==
    /\ last.op = "update_zone"
    /\ last.row[1] \in zones
    /\ last.row[1].soa_serial = PyInt(FALSE, SerialMax)
    /\ last.row[1].soa_refresh = 1
    /\ last.row[1].soa_retry = 1
    /\ last.row[1].soa_expire = 1
    /\ last.row[1].soa_minimum = 1

RECURSIVE Candidates(_, _)
\* the values candidate_hex takes during the walk of allocate_next_ip, the
\* one it ends with included
Candidates(allocated, candidate_hex) ==
    IF allocated = <<>> THEN {candidate_hex}
    ELSE IF StrLess(candidate_hex, Head(allocated)) THEN {candidate_hex}
    ELSE {candidate_hex} \cup
         Candidates(Tail(allocated),
                    _int_to_hex(IntSucc(_hex_to_int(candidate_hex))))

\* the keys allocate_next_ip on the subnet compares with one another: the
\* bounds of the range, the stored keys and the candidates
ComparedKeys(subnet) ==
    LET range == AllocRange(subnet)
        start_hex == _int_to_hex(range.start_int)
        end_hex == _int_to_hex(range.end_int)
    IN  {start_hex, end_hex}
        \cup {r.address : r \in ips}
        \cup Candidates(LoadAllocated(subnet.id, start_hex, end_hex), start_hex)

\* C21: the key encoding preserves order: any two keys that are stored or
\* that allocate compares (range bounds, stored keys, the candidate after
\* each increment) compare as strings the way their values compare as
\* numbers.
C21_KeyOrderIsNumericOrder ==
    \A subnet \in subnets :
        \A a \in ComparedKeys(subnet), b \in ComparedKeys(subnet) :
            StrLess(a, b) <=> IntLess(_hex_to_int(a), _hex_to_int(b))

\* the addresses of a subnet, as integers
AddressesOf(subnet) ==
    RangeSet(network(subnet).network_address, network(subnet).broadcast_address)

\* C22: decoding an encoded address value gives the value back, for every
\* address of a stored subnet and every address a request names; the string
\* rendered from a record (address_str) denotes the address the record was
\* made from, in the response of create_ip_address and allocate and for
\* every stored row whose key is the key of an address.
C22_RoundTripIsIdentity ==
    /\ \A a \in AddressInputs : _hex_to_int(_int_to_hex(a.value)) = a.value
    /\ \A subnet \in subnets : \A v \in AddressesOf(subnet) :
           /\ _hex_to_int(_int_to_hex(v)) = v
           /\ address_str([address |-> _int_to_hex(v), is_ipv6 |-> subnet.is_ipv6])
                  = [is_ipv6 |-> subnet.is_ipv6, value |-> v]
    /\ \A b \in CreateIPBodies :
           create_ip_check(b).status = 0 =>
               address_str(create_ip_check(b).row[1]) = b.address
    /\ (last.op \in {"allocate", "create_ip"} /\ last.status = 201) =>
           /\ last.address = Some(address_str(last.row[1]))
           /\ _int_to_hex(last.address[1].value) = last.row[1].address
    /\ \A r \in ips :
           Len(r.address) = _HEX_LEN =>
               /\ ~AddressStrRaises(r)
               /\ _int_to_hex(address_str(r).value) = r.address

\* allocate stored and rendered the last address of the IPv6 space
C22_Witness ==
    /\ last.op = "allocate"
    /\ last.status = 201
    /\ last.address = Some(V6(TopV6(15)))
    /\ last.row[1] \in ips

PlainCreateBody(address, subnet_id) ==
    [address |-> address, subnet_id |-> subnet_id,
     dns_name |-> None, description |-> None]

\* C23: create_ip_address accepts every address of the subnet's network
\* that no record holds yet, the network address and the broadcast address
\* included.
C23_CreateAcceptsWholeRange ==
    \A subnet \in subnets, a \in AddressInputs :
        (InNetwork(a, network(subnet)) /\ ~AddressRegistered(a)) =>
            LET o == create_ip_check(PlainCreateBody(a, subnet.id))
            IN  /\ o.status = 0
                /\ o.row[1].address = _int_to_hex(a.value)
                /\ o.row[1].subnet_id = subnet.id

\* C24: every allocate and create_ip_address request ends in its success
\* or in a failure the handler raises as an HTTP error; none ends in an
\* exception no handler catches (a 500).
C24_NoUnhandledException ==
    last.op \in {"allocate", "create_ip"} => last.status # 500

\* C25: the free_count of a subnet response is the number of addresses of
\* the usable range that no record of the subnet holds, and it is 0 exactly
\* when allocate on the subnet is answered exhausted.
C25_FreeCountIsFreeUsable ==
    \A s \in subnets :
        /\ free_count(s) = Cardinality(FreeUsable(s, ips))
        /\ free_count(s) = 0 <=>
               /\ allocate_scan(s.id, NoBody).status = 409
               /\ allocate_scan(s.id, NoBody).detail = "exhausted"

\* C26: a get or update on a zone id that no zone has is answered 404, and
\* the id of a deleted zone is found by no later request: the request that
\* follows a delete leaves no zone with the deleted id.
C26_DeletedZoneIdStaysUnknown ==
    [][/\ \A id \in ZoneIdInputs :
              (\A z \in zones : z.id # id) =>
                  /\ get_zone_check(id).status = 404
                  /\ \A b \in NameUpdateBodies :
                         DNSZoneUpdateValid(b) =>
                             update_zone_check(id, b).status = 404
       /\ last.op = "delete_zone" =>
              /\ get_zone_check(last.row[1].id).status = 404
              /\ \A z \in zones' : z.id # last.row[1].id]_vars

\* the string without one trailing ".", if it has one
WithoutOneTrailingDot(s) ==
    IF s # <<>> /\ s[Len(s)] = "." THEN Front(s) ELSE s

\* label-boundary match after one trailing dot is taken off either side
InZoneOneDotOff(name, zone_name) ==
    LET n == WithoutOneTrailingDot(name)
        z == WithoutOneTrailingDot(zone_name)
    IN  \/ n = z
        \/ /\ Len(n) > Len(z)
           /\ n[Len(n) - Len(z)] = "."
           /\ \A i \in 1..Len(z) : n[Len(n) - Len(z) + i] = z[i]

\* C27: the zone-membership check takes exactly one trailing "." off the
\* name and off each zone name before it compares; a dot that remains after
\* that takes part in the comparison.
C27_ExactlyOneDotStripped ==
    last.op = "membership" =>
        /\ last.in_zone = (\E z \in ZoneNames : InZoneOneDotOff(last.name, z))
        /\ last.allocate_in_zone =
               (\E z \in ZoneNames : InZoneOneDotOff(last.name, z))

\* C28: zone identity ignores a trailing dot: no two stored zones have names
\* that differ only by a trailing ".", under any sequence of creates and
\* updates.
C28_ZoneIdentityIgnoresTrailingDot ==
    \A z1 \in zones, z2 \in zones :
        WithoutOneTrailingDot(z1.name) = WithoutOneTrailingDot(z2.name) => z1 = z2

\* SOA objects as requests write them: mname and rname, and each of the
\* other five sub-fields supplied or left out
SoaRequests ==
    {[mname |-> MnameExample, rname |-> RnameExample, serial |-> serial,
      refresh |-> refresh, retry |-> None, expire |-> None, minimum |-> minimum] :
        serial \in {None, Some(PyInt(FALSE, <<2>>))},
        refresh \in {None, Some(7)},
        minimum \in {None, Some(9)}}

\* the update body pydantic builds from a request that carries only an SOA
\* object
SoaOnlyBody(q) ==
    [name |-> None, description |-> None,
     soa |-> Some(SOAFields(q.mname, q.rname, q.serial, q.refresh, q.retry,
                            q.expire, q.minimum))]

\* C29: an update_dns_zone that carries SOA fields changes the SOA
\* sub-fields it supplies and no other: serial, refresh, retry, expire and
\* minimum keep their stored values when the request leaves them out.
C29_UnsuppliedSoaFieldsKept ==
    \A z \in zones, q \in SoaRequests :
        LET o == update_zone_check(z.id, SoaOnlyBody(q))
        IN  o.status = 0 =>
                /\ q.serial = None => o.row[1].soa_serial = z.soa_serial
                /\ q.refresh = None => o.row[1].soa_refresh = z.soa_refresh
                /\ q.retry = None => o.row[1].soa_retry = z.soa_retry
                /\ q.expire = None => o.row[1].soa_expire = z.soa_expire
                /\ q.minimum = None => o.row[1].soa_minimum = z.soa_minimum

\* the update body pydantic builds from the request {"description": null}
NullDescriptionBody == [name |-> None, description |-> None, soa |-> None]

\* C30: an update_dns_zone request that passes description as null leaves
\* the zone without a description.
C30_NullDescriptionClears ==
    \A z \in zones :
        LET o == update_zone_check(z.id, NullDescriptionBody)
        IN  /\ o.status = 0
            /\ o.row[1].description = None

\* the body of a create_subnet request for a CIDR string
SubnetBody(cidr) == [name |-> "net", cidr |-> validate_cidr(cidr), description |-> None]

SameNetwork(a, b) ==
    /\ a.network_address = b.network_address
    /\ a.prefix_length = b.prefix_length
    /\ a.is_ipv6 = b.is_ipv6

\* C31: normalising the CIDR string of a normalised subnet changes nothing:
\* it gives the same network key, prefix length and family, for every CIDR
\* a request carries and for every stored subnet, and create_subnet with a
\* stored subnet's cidr finds the stored record (409).
C31_NormalisationIdempotent ==
    /\ \A c \in CidrInputs :
           LET row == from_cidr(validate_cidr(c), "net", None)
               again == from_cidr(validate_cidr(network_str(row)), "net", None)
           IN  /\ validate_cidr(network_str(row)) = validate_cidr(c)
               /\ SameNetwork(again, row)
    /\ \A s \in subnets :
           /\ validate_cidr(network_str(s)) = network_str(s)
           /\ SameNetwork(from_cidr(validate_cidr(network_str(s)), "net", None), s)
           /\ create_subnet_check(SubnetBody(network_str(s))).status = 409
           /\ create_subnet_check(SubnetBody(network_str(s))).row = None

\* the subnet created last came from a CIDR and is stored next to another
C31_Witness ==
    /\ last.op = "create_subnet"
    /\ last.row[1] \in subnets
    /\ Cardinality(subnets) = 2
    /\ create_subnet_check(SubnetBody(network_str(last.row[1]))).status = 409

\* C32: every dns_name stored on an IPAddress record passed the syntax
\* validation, whichever of create_ip_address, update_ip_address and
\* allocate wrote it.
C32_StoredNamesAreValidated ==
    \A r \in ips : r.dns_name # None => _validate_dns_name(r.dns_name[1])

\* the address of the other family with the same numeric value
Twin(address) == [is_ipv6 |-> ~address.is_ipv6, value |-> address.value]

\* C33: records of one family never make a request for an address of the
\* other family a duplicate: create_ip_address for an address that is in
\* the subnet and is not registered is not answered 409 because the address
\* of the other family with the same numeric value is, and allocate does not
\* fail on such a record either.
C33_FamiliesDoNotInterfere ==
    /\ \A subnet \in subnets, a \in AddressInputs :
           (/\ InNetwork(a, network(subnet))
            /\ ~AddressRegistered(a)
            /\ AddressRegistered(Twin(a))) =>
               create_ip_check(PlainCreateBody(a, subnet.id)).status # 409
    /\ (last.op = "allocate" /\ last.status = 500
            /\ last.detail = "IntegrityError") =>
           AddressRegistered(AddressOfRow(last.row[1]))

\* C34: create_subnet answers 409 only when a stored subnet is the same
\* network of the same family; 0.0.0.0/8 and ::/8, whose keys and prefix
\* lengths are equal, can both be created.
C34_ExistsMeansSameFamily ==
    \A c \in CidrInputs :
        create_subnet_check(SubnetBody(c)).status = 409 =>
            \E s \in subnets :
                SameNetwork(s, from_cidr(validate_cidr(c), "net", None))

\* the addresses of the subnet's usable range that no record of any subnet
\* holds
FreeEverywhere(subnet) ==
    {v \in UsableSet(subnet) :
        ~AddressRegistered([is_ipv6 |-> subnet.is_ipv6, value |-> v])}

\* C35: allocate on a subnet succeeds whenever the usable range has an
\* address that no record of any subnet holds: the candidate it goes on to
\* insert is such an address, addresses registered under an overlapping
\* subnet being passed over.
C35_AllocateSkipsOtherSubnets ==
    \A subnet \in subnets :
        FreeEverywhere(subnet) # {} =>
            LET o == allocate_scan(subnet.id, NoBody)
            IN  /\ o.status = 0
                /\ _hex_to_int(o.row[1].address) \in FreeEverywhere(subnet)
                /\ ~AddressUniqueViolated(o.row[1], ips)

\* C36: a successful allocate adds exactly one record, owned by the
\* requested subnet, and leaves every stored record, every subnet and every
\* zone as it was; a step of allocate that changes anything belongs to a
\* request the handler did not refuse with 404, 400 or 409.
C36_AllocateFrame ==
    [][(last'.op = "allocate" /\ last' # last) =>
          /\ subnets' = subnets
          /\ zones' = zones
          /\ ips \subseteq ips'
          /\ \E subnet_id \in SubnetIdInputs, body \in NamedAllocateBodies :
                 LET o == allocate_scan(subnet_id, body)
                 IN  /\ o.status = 0
                     /\ last'.status = 201 =>
                            /\ last'.row[1] \notin ips
                            /\ ips' = ips \cup {last'.row[1]}
                            /\ Cardinality(ips') = Cardinality(ips) + 1
                            /\ last'.row[1].subnet_id = subnet_id
                            /\ \E s \in subnets : s.id = subnet_id]_vars

C36_Witness ==
    /\ AllocateSucceeded
    /\ last.row[1] \in ips
    /\ \E r \in ips : r.id # last.row[1].id /\ r.dns_name # None
    /\ zones # {}

\* what the database holds
Stored == <<subnets, ips, zones>>

\* the request served in this step, by process p with this credential
Routed(p, creds) ==
    \/ subnets_router(p, creds)
    \/ ip_addresses_router(p, creds)
    \/ dns_zones_router(p, creds)

\* nothing of the database is in the response
NothingReadBack == last.row = None /\ last.address = None /\ last.allocated = <<>>

\* C37: a request to the subnet, ip-address or dns-zone routes served by a
\* process whose key set is empty fails with 500, one whose bearer credential
\* is missing or not in the key set fails with 401, and in both cases the
\* database is left as it was and nothing of it is in the response: a
\* request is executed only with a non-empty key set holding its credential.
C37_OnlyKeyHoldersAreServed ==
    [][\A p \in Procs, creds \in CredentialInputs :
          LET keys == pend[p]._valid_keys
          IN  /\ (keys = {} /\ Routed(p, creds)) =>
                     /\ last'.status = 500
                     /\ Stored' = Stored
                     /\ NothingReadBack'
              /\ (/\ keys # {}
                  /\ creds = None \/ creds[1] \notin keys
                  /\ Routed(p, creds)) =>
                     /\ last'.status = 401
                     /\ Stored' = Stored
                     /\ NothingReadBack']_vars

C37_Witness ==
    /\ last.op = "verify_api_key"
    /\ last.status = 401
    /\ ips # {}
    /\ \E p \in Procs : pend[p]._valid_keys = {}
    /\ \E p \in Procs : Key2 \in pend[p]._valid_keys

====
